---- MODULE Spec2Model ----
(***************************************************************************)
(* Ruby-VPI relay: the two-mutex baton between the simulation thread and   *)
(* the script (Ruby) thread, the capture of the $ruby_init arguments into  *)
(* a heap buffer, and the bootstrap of the script thread.                  *)
(*   ext/relay.c : relay_init, relay_ruby, relay_verilog,                  *)
(*                 ruby_run_handshake, relay_ruby_run                      *)
(*   ext/main.c  : main_relay_verilog (the script's way into relay_verilog)*)
(***************************************************************************)
EXTENDS Integers, Sequences, FiniteSets, TLC

\* ------------------------------------------------------------------ bounds
\* most arguments the simulator's iterator returns
MaxArgs == 2
\* longest argument string, in bytes before the terminating NUL
MaxStrLen == 1
\* most relay_ruby calls of the simulation thread, and most relay_verilog
\* calls of the script program
MaxCalls == 2

\* ----------------------------------------------------------------- strings
\* bytes an argument is made of: a space and the letter a
Bytes == {32, 97}

RECURSIVE SeqsUpTo(_, _)
SeqsUpTo(S, n) ==
  IF n = 0 THEN {<<>>}
  ELSE LET shorter == SeqsUpTo(S, n - 1)
       IN  shorter \cup {Append(s, x) : s \in {t \in shorter : Len(t) = n - 1}, x \in S}

\* a C string in memory: its bytes followed by the terminating NUL
CStr(s) == Append(s, 0)

\* the values vpi_get_value can store in argVal.value.str
Strings == {CStr(s) : s \in SeqsUpTo(Bytes, MaxStrLen)}

\* the argument lists a $ruby_init call site can have
Sources == SeqsUpTo(Strings, MaxArgs)

\* strlen: the number of bytes before the first NUL
RECURSIVE StrLen(_)
StrLen(mem) == IF mem = <<>> \/ Head(mem) = 0 THEN 0 ELSE 1 + StrLen(Tail(mem))

\* pointers: NULL, or the memory pointed to
NullPtr == [null |-> TRUE, mem |-> <<>>]
Ptr(m) == [null |-> FALSE, mem |-> m]

\* strdup: a fresh block holding the bytes up to and including the NUL
strdup(mem) == Ptr(SubSeq(mem, 1, StrLen(mem) + 1))

\* -------------------------------------------------------------------- heap
OptsBlock == <<"opts", 0>>
ArgvBlock == <<"argv", 0>>
StrBlock(i) == <<"str", i>>
Blocks == {OptsBlock, ArgvBlock} \cup {StrBlock(i) : i \in 1..(MaxArgs + 1)}

\* ----------------------------------------------------------------- mutexes
\* pthread_mutex_init(&m, NULL) gives a PTHREAD_MUTEX_DEFAULT mutex.  For it
\* POSIX leaves undefined what relocking by the owner and unlocking by a
\* thread that is not the owner do; the two behaviours builds have are the
\* ones of a NORMAL mutex (no owner check: relock blocks, any thread's
\* unlock releases) and of an ERRORCHECK mutex (relock returns EDEADLK,
\* unlock by a non-owner returns EPERM; the code ignores return values).
MutexTypes == {"NORMAL", "ERRORCHECK"}

Unlocked == [locked |-> FALSE, owner |-> "none"]
HeldBy(t) == [locked |-> TRUE, owner |-> t]

VARIABLES
  mutexType,           \* the behaviour the build gives to default mutexes
  relay__rubyLock,     \* gate the script thread waits on
  relay__verilogLock,  \* gate the simulation thread waits on
  relay__rubyThread,   \* TRUE once pthread_create has stored the handle
  process,             \* "running", "exit_failure" (exit) or "abort" (assert)
  pcSim,               \* position of the simulation thread
  pcScript,            \* position of the script thread
  srcArgs,             \* the call site's arguments, owned by the simulator
  scanned,             \* how many of them vpi_scan has returned
  argVal,              \* argVal.value.str: the simulator's string buffer
  mArgs,               \* pRubyOptions->mArgs: NULL or the array of pointers
  mCount,              \* pRubyOptions->mCount
  hs,                  \* locals of ruby_run_handshake: argc, argv, i
  rubyArgs,            \* what ruby_options was called with
  allocs,              \* per heap block: times allocated
  frees,               \* per heap block: times passed to free
  rubyCalls,           \* relay_ruby calls the simulation thread has made
  rubyReturns,         \* relay_ruby calls that have returned
  verilogCalls,        \* relay_verilog calls the script program has made
  obs,                 \* observations of the handoffs, for the properties
  diag,                \* the diagnostics common_printf has printed
  main,                \* main_init: its position and what it has done
  vpiMethods,          \* the callables bound for the script program
  rb,                  \* the script-facing callable last called: receiver, result
  apRubyOptions,       \* the argument pthread_create hands to ruby_run_handshake
  parked               \* script threads other than the one pcScript and hs show

vars == <<mutexType, relay__rubyLock, relay__verilogLock, relay__rubyThread,
          process, pcSim, pcScript, srcArgs, scanned, argVal, mArgs, mCount,
          hs, rubyArgs, allocs, frees, rubyCalls, rubyReturns, verilogCalls,
          obs, diag, main, vpiMethods, rb, apRubyOptions, parked>>

baton == <<relay__rubyLock, relay__verilogLock>>
capture == <<srcArgs, scanned, argVal, mArgs, mCount>>
heap == <<allocs, frees>>
counts == <<rubyCalls, rubyReturns, verilogCalls>>
extra == <<diag, main, vpiMethods, rb, apRubyOptions, parked>>

\* pthread_mutex_unlock(&m) by thread t: the mutex afterwards
MutexUnlock(m, t) ==
  IF mutexType = "NORMAL" THEN Unlocked
  ELSE IF m.locked /\ m.owner = t THEN Unlocked ELSE m

\* pthread_mutex_lock(&m) by thread t can return
MutexLockReturns(m, t) ==
  IF mutexType = "NORMAL" THEN ~m.locked
  ELSE ~m.locked \/ m.owner = t

\* pthread_mutex_lock(&m) by thread t: the mutex once it has returned
MutexLock(m, t) ==
  IF ~m.locked THEN HeldBy(t) ELSE m

\* malloc / realloc / strdup of block b succeeding
Alloc(b) == [allocs EXCEPT ![b] = @ + 1]

\* free(p) of the block b, a no-op for NULL
Free(fr, b, isNull) == IF isNull THEN fr ELSE [fr EXCEPT ![b] = @ + 1]

\* ----------------------------------------------------------- observations
\* regions: the threads in the order they entered an active region
\* sinceCall: 1 when relay_verilog was called since the latest relay_ruby call
\* last: the handoff most recently called; twice: that handoff was called
\*   with no call of the other one since the same handoff's previous call
\* afterEnd: the current relay_ruby call began after the script thread ended
\* allocFailed: an allocation of the capture loop returned NULL
\* optsFailed: the malloc of the options structure returned NULL
\* touch: who has read or written the argument buffer, and when
Obs0 == [regions |-> <<"sim">>, sinceCall |-> 0, last |-> "none",
         twice |-> FALSE, afterEnd |-> FALSE, allocFailed |-> FALSE,
         optsFailed |-> FALSE, touch |-> {}]

\* the text relay_ruby_run prints before exit(EXIT_FAILURE)
NoMemoryMessage == "error: unable to allocate memory for Ruby's command-line arguments."

\* when an access to the argument buffer happens: before pthread_create,
\* after it, or after the script thread has freed the options structure
BufferPhase ==
  IF frees[OptsBlock] > 0 THEN "after_free"
  ELSE IF relay__rubyThread THEN "after_spawn" ELSE "before_spawn"

\* main_init has not been entered
Main0 == [pc |-> "none", benchFile |-> "unread", script |-> "none",
          loaded |-> FALSE, ran |-> FALSE, finalized |-> FALSE]

\* no script-facing callable has been called
Rb0 == [method |-> "none", self |-> "none", ret |-> "none", handoffs |-> 0]

\* the locals of ruby_run_handshake before it has read its argument
Hs0 == [argc |-> 0, argv |-> [null |-> TRUE, arr |-> <<>>], i |-> 0]

\* what belongs to the script thread that is being stepped: its position in
\* ruby_run_handshake, its locals and the argument pthread_create gave it
ScriptThread == [pcScript |-> pcScript, hs |-> hs, apRubyOptions |-> apRubyOptions]

\* no options structure
NoOptions == [mArgs |-> [null |-> TRUE, arr |-> <<>>], mCount |-> 0]

Init ==
  /\ mutexType \in MutexTypes
  /\ relay__rubyLock = Unlocked
  /\ relay__verilogLock = Unlocked
  /\ relay__rubyThread = FALSE
  /\ process = "running"
  /\ pcSim = "boot"
  /\ pcScript = "none"
  /\ srcArgs \in Sources
  /\ scanned = 0
  /\ argVal = NullPtr
  /\ mArgs = [null |-> TRUE, arr |-> <<>>]
  /\ mCount = 0
  /\ hs = [argc |-> 0, argv |-> [null |-> TRUE, arr |-> <<>>], i |-> 0]
  /\ rubyArgs = [called |-> FALSE, argc |-> 0, argv |-> [null |-> TRUE, arr |-> <<>>]]
  /\ allocs = [b \in Blocks |-> 0]
  /\ frees = [b \in Blocks |-> 0]
  /\ rubyCalls = 0
  /\ rubyReturns = 0
  /\ verilogCalls = 0
  /\ obs = Obs0
  /\ diag = {}
  /\ main = Main0
  /\ vpiMethods = {}
  /\ rb = Rb0
  /\ apRubyOptions = NoOptions
  /\ parked = <<>>

\* --------------------------------------------------------------- relay_init
relay_init ==
  /\ process = "running" /\ pcSim = "boot"
  /\ relay__rubyLock' = MutexLock(Unlocked, "sim")
  /\ relay__verilogLock' = MutexLock(Unlocked, "sim")
  /\ pcSim' = "launch"
  /\ UNCHANGED <<mutexType, relay__rubyThread, process, pcScript, capture, hs,
                 rubyArgs, heap, counts, obs>>
  /\ UNCHANGED extra

\* ----------------------------------------------------------- relay_ruby_run
\* The simulation thread runs relay_init, then relay_ruby_run (the simulator's
\* start-up task), then any number of relay_ruby calls from its callbacks.
\* the failure branch printing the diagnostic but going on to the spawn
\* instead of calling exit
relay_ruby_run_malloc_no_exit ==
  /\ process = "running" /\ pcSim = "launch"
  /\ \E ok \in BOOLEAN :
       IF ok
       THEN /\ allocs' = Alloc(OptsBlock)
            /\ mArgs' = [null |-> TRUE, arr |-> <<>>]
            /\ mCount' = 0
            /\ pcSim' = "iterate"
            /\ obs' = [obs EXCEPT !.touch = @ \cup {<<"sim", BufferPhase>>}]
            /\ UNCHANGED <<process, diag>>
       ELSE /\ diag' = diag \cup {NoMemoryMessage}
            /\ pcSim' = "spawn"
            /\ obs' = [obs EXCEPT !.optsFailed = TRUE]
            /\ UNCHANGED <<allocs, mArgs, mCount, process>>
  /\ UNCHANGED <<mutexType, baton, relay__rubyThread, pcScript, srcArgs,
                 scanned, argVal, hs, rubyArgs, frees, counts>>
  /\ UNCHANGED <<main, vpiMethods, rb, apRubyOptions, parked>>

\* malloc of the options structure; on failure the diagnostic and exit
relay_ruby_run_malloc ==
  /\ process = "running" /\ pcSim = "launch"
  /\ \E ok \in BOOLEAN :
       IF ok
       THEN /\ allocs' = Alloc(OptsBlock)
            /\ mArgs' = [null |-> TRUE, arr |-> <<>>]
            /\ mCount' = 0
            /\ pcSim' = "iterate"
            /\ obs' = [obs EXCEPT !.touch = @ \cup {<<"sim", BufferPhase>>}]
            /\ UNCHANGED <<process, diag>>
       ELSE /\ diag' = diag \cup {NoMemoryMessage}
            /\ process' = "exit_failure"
            /\ obs' = [obs EXCEPT !.optsFailed = TRUE]
            /\ UNCHANGED <<allocs, mArgs, mCount, pcSim>>
  /\ UNCHANGED <<mutexType, baton, relay__rubyThread, pcScript, srcArgs,
                 scanned, argVal, hs, rubyArgs, frees, counts>>
  /\ UNCHANGED <<main, vpiMethods, rb, apRubyOptions, parked>>

\* vpi_handle and vpi_iterate: no iterator for a call without arguments
relay_ruby_run_iterate ==
  /\ process = "running" /\ pcSim = "iterate"
  /\ pcSim' = IF Len(srcArgs) = 0 THEN "spawn" ELSE "scan"
  /\ UNCHANGED <<mutexType, baton, relay__rubyThread, process, pcScript,
                 capture, hs, rubyArgs, heap, counts, obs>>
  /\ UNCHANGED extra

\* one turn of the while loop: vpi_scan, grow the array, assert, copy.
\* A failed malloc/realloc ends the process: the assert aborts, and where
\* NDEBUG removes it the store through the NULL array at line 123 faults.
\* The pointer strdup returns is stored as it is, NULL included.
relay_ruby_run_scan ==
  /\ process = "running" /\ pcSim = "scan"
  /\ IF scanned = Len(srcArgs)
     THEN /\ pcSim' = "spawn"
          /\ UNCHANGED <<process, scanned, argVal, mArgs, mCount, allocs, obs>>
     ELSE /\ scanned' = scanned + 1
          /\ mCount' = mCount + 1
          /\ \E grown \in BOOLEAN :
               IF ~grown
               THEN \* malloc or realloc returned NULL: the assert fails
                    /\ mArgs' = [null |-> TRUE, arr |-> <<>>]
                    /\ process' = "abort"
                    /\ obs' = [obs EXCEPT !.allocFailed = TRUE,
                                          !.touch = @ \cup {<<"sim", BufferPhase>>}]
                    /\ UNCHANGED <<argVal, allocs, pcSim>>
               ELSE /\ argVal' = Ptr(srcArgs[scanned + 1])
                    /\ \E copied \in BOOLEAN :
                         /\ mArgs' = [null |-> FALSE,
                                      arr |-> Append(mArgs.arr,
                                                IF copied THEN strdup(argVal'.mem)
                                                          ELSE NullPtr)]
                         /\ allocs' = [allocs EXCEPT
                                         ![ArgvBlock] = IF mArgs.null THEN @ + 1 ELSE @,
                                         ![StrBlock(mCount')] = IF copied THEN @ + 1 ELSE @]
                         /\ obs' = [obs EXCEPT !.allocFailed = @ \/ ~copied,
                                               !.touch = @ \cup {<<"sim", BufferPhase>>}]
                    /\ UNCHANGED <<process, pcSim>>
  /\ UNCHANGED <<mutexType, baton, relay__rubyThread, pcScript, srcArgs, hs,
                 rubyArgs, frees, counts>>
  /\ UNCHANGED extra

\* relay_ruby_run waiting on relay__verilogLock for the script thread before
\* it returns
relay_ruby_run_spawn_waits ==
  /\ process = "running" /\ pcSim = "spawn"
  /\ MutexLockReturns(relay__verilogLock, "sim")
  /\ relay__verilogLock' = MutexLock(relay__verilogLock, "sim")
  /\ relay__rubyThread' = TRUE
  /\ apRubyOptions' = [mArgs |-> mArgs, mCount |-> mCount]
  /\ pcScript' = "spawned"
  /\ pcSim' = "active"
  /\ obs' = [obs EXCEPT !.touch = @ \cup {<<"sim", BufferPhase>>}]
  /\ parked' = IF pcScript = "none" THEN parked ELSE Append(parked, ScriptThread)
  /\ hs' = Hs0
  /\ UNCHANGED <<mutexType, relay__rubyLock, process, capture, rubyArgs,
                 heap, counts>>
  /\ UNCHANGED <<diag, main, vpiMethods, rb>>

\* relay_ruby_run freeing the options structure itself once it has called
\* pthread_create
relay_ruby_run_spawn_frees ==
  /\ process = "running" /\ pcSim = "spawn"
  /\ relay__rubyThread' = TRUE
  /\ apRubyOptions' = [mArgs |-> mArgs, mCount |-> mCount]
  /\ pcScript' = "spawned"
  /\ pcSim' = "active"
  /\ frees' = Free(frees, OptsBlock, FALSE)
  /\ obs' = [obs EXCEPT !.touch = @ \cup {<<"sim", "after_spawn">>}]
  /\ parked' = IF pcScript = "none" THEN parked ELSE Append(parked, ScriptThread)
  /\ hs' = Hs0
  /\ UNCHANGED <<mutexType, baton, process, capture, rubyArgs, allocs,
                 counts>>
  /\ UNCHANGED <<diag, main, vpiMethods, rb>>

\* pthread_create(&relay__rubyThread, 0, ruby_run_handshake, pRubyOptions)
relay_ruby_run_spawn ==
  /\ process = "running" /\ pcSim = "spawn"
  /\ relay__rubyThread' = TRUE
  /\ apRubyOptions' = [mArgs |-> mArgs, mCount |-> mCount]
  /\ pcScript' = "spawned"
  /\ pcSim' = "active"
  /\ obs' = [obs EXCEPT !.touch = @ \cup {<<"sim", BufferPhase>>}]
  /\ parked' = IF pcScript = "none" THEN parked ELSE Append(parked, ScriptThread)
  /\ hs' = Hs0
  /\ UNCHANGED <<mutexType, baton, process, capture, rubyArgs, heap,
                 counts>>
  /\ UNCHANGED <<diag, main, vpiMethods, rb>>

\* a step of relay_ruby_run, and the simulation thread being inside it
RelayRubyRunStep ==
  \/ relay_ruby_run_malloc
  \/ relay_ruby_run_iterate
  \/ relay_ruby_run_scan
  \/ relay_ruby_run_spawn

InRelayRubyRun ==
  process = "running" /\ pcSim \in {"launch", "iterate", "scan", "spawn"}

\* --------------------------------------------------------------- relay_ruby
\* the simulation thread calls relay_ruby: pthread_mutex_unlock(&relay__rubyLock)
relay_ruby_unlock ==
  /\ process = "running" /\ pcSim = "active"
  /\ rubyCalls < MaxCalls
  /\ relay__rubyLock' = MutexUnlock(relay__rubyLock, "sim")
  /\ pcSim' = "ruby_lock"
  /\ rubyCalls' = rubyCalls + 1
  /\ obs' = [obs EXCEPT !.sinceCall = 0,
                        !.twice = (obs.last = "ruby"),
                        !.last = "ruby",
                        !.afterEnd = (pcScript = "Terminated")]
  /\ UNCHANGED <<mutexType, relay__verilogLock, relay__rubyThread, process,
                 pcScript, capture, hs, rubyArgs, heap, rubyReturns,
                 verilogCalls>>
  /\ UNCHANGED extra

\* pthread_mutex_lock(&relay__verilogLock) returns and so does relay_ruby
relay_ruby_lock ==
  /\ process = "running" /\ pcSim = "ruby_lock"
  /\ MutexLockReturns(relay__verilogLock, "sim")
  /\ relay__verilogLock' = MutexLock(relay__verilogLock, "sim")
  /\ pcSim' = "active"
  /\ rubyReturns' = rubyReturns + 1
  /\ obs' = [obs EXCEPT !.regions = Append(@, "sim")]
  /\ UNCHANGED <<mutexType, relay__rubyLock, relay__rubyThread, process,
                 pcScript, capture, hs, rubyArgs, heap, rubyCalls,
                 verilogCalls>>
  /\ UNCHANGED extra

\* ------------------------------------------------------- ruby_run_handshake
\* the callables swig_init binds for the script program
SwigInit == {"relay_verilog", "relay_ruby_reason"}

\* the thread function going from ruby_init straight to ruby_options, the
\* call of swig_init left out
handshake_init_skips_swig ==
  /\ process = "running" /\ pcScript = "spawned"
  /\ pcScript' = "Ready"
  /\ UNCHANGED <<mutexType, baton, relay__rubyThread, process, pcSim, capture,
                 hs, rubyArgs, heap, counts, obs>>
  /\ UNCHANGED extra

\* ruby_init(); ruby_init_loadpath();
handshake_init ==
  /\ process = "running" /\ pcScript = "spawned"
  /\ pcScript' = "Init"
  /\ UNCHANGED <<mutexType, baton, relay__rubyThread, process, pcSim, capture,
                 hs, rubyArgs, heap, counts, obs>>
  /\ UNCHANGED extra

\* swig_init();
handshake_swig_init ==
  /\ process = "running" /\ pcScript = "Init"
  /\ pcScript' = "Ready"
  /\ vpiMethods' = vpiMethods \cup SwigInit
  /\ UNCHANGED <<mutexType, baton, relay__rubyThread, process, pcSim, capture,
                 hs, rubyArgs, heap, counts, obs>>
  /\ UNCHANGED <<diag, main, rb, apRubyOptions, parked>>

\* argv = pRubyOptions->mArgs; argc = pRubyOptions->mCount; ruby_options(argc, argv);
handshake_options ==
  /\ process = "running" /\ pcScript = "Ready"
  /\ hs' = [argc |-> apRubyOptions.mCount, argv |-> apRubyOptions.mArgs, i |-> 0]
  /\ rubyArgs' = [called |-> TRUE, argc |-> apRubyOptions.mCount,
                  argv |-> apRubyOptions.mArgs]
  /\ pcScript' = "free_strings"
  /\ obs' = [obs EXCEPT !.touch = @ \cup {<<"script", BufferPhase>>}]
  /\ UNCHANGED <<mutexType, baton, relay__rubyThread, process, pcSim, capture,
                 heap, counts>>
  /\ UNCHANGED extra

\* the loop written as for (i = 0; i < argc - 1; i++): the last string leaks
handshake_free_string_short ==
  /\ process = "running" /\ pcScript = "free_strings"
  /\ IF hs.i + 1 < hs.argc
     THEN /\ frees' = Free(frees, StrBlock(hs.i + 1), hs.argv.arr[hs.i + 1].null)
          /\ hs' = [hs EXCEPT !.i = @ + 1]
          /\ obs' = [obs EXCEPT !.touch = @ \cup {<<"script", BufferPhase>>}]
          /\ UNCHANGED pcScript
     ELSE /\ pcScript' = "free_argv"
          /\ UNCHANGED <<frees, hs, obs>>
  /\ UNCHANGED <<mutexType, baton, relay__rubyThread, process, pcSim, capture,
                 rubyArgs, allocs, counts>>
  /\ UNCHANGED extra

\* for (i = 0; i < argc; i++) free(argv[i]);   one turn, or the loop's exit
handshake_free_string ==
  /\ process = "running" /\ pcScript = "free_strings"
  /\ IF hs.i < hs.argc
     THEN /\ frees' = Free(frees, StrBlock(hs.i + 1), hs.argv.arr[hs.i + 1].null)
          /\ hs' = [hs EXCEPT !.i = @ + 1]
          /\ obs' = [obs EXCEPT !.touch = @ \cup {<<"script", BufferPhase>>}]
          /\ UNCHANGED pcScript
     ELSE /\ pcScript' = "free_argv"
          /\ UNCHANGED <<frees, hs, obs>>
  /\ UNCHANGED <<mutexType, baton, relay__rubyThread, process, pcSim, capture,
                 rubyArgs, allocs, counts>>
  /\ UNCHANGED extra

\* free(argv);
handshake_free_argv ==
  /\ process = "running" /\ pcScript = "free_argv"
  /\ frees' = Free(frees, ArgvBlock, hs.argv.null)
  /\ pcScript' = "free_opts"
  /\ obs' = [obs EXCEPT !.touch = @ \cup {<<"script", BufferPhase>>}]
  /\ UNCHANGED <<mutexType, baton, relay__rubyThread, process, pcSim, capture,
                 hs, rubyArgs, allocs, counts>>
  /\ UNCHANGED extra

\* free(pRubyOptions);
handshake_free_opts ==
  /\ process = "running" /\ pcScript = "free_opts"
  /\ frees' = Free(frees, OptsBlock, FALSE)
  /\ pcScript' = "run"
  /\ obs' = [obs EXCEPT !.touch = @ \cup {<<"script", BufferPhase>>}]
  /\ UNCHANGED <<mutexType, baton, relay__rubyThread, process, pcSim, capture,
                 hs, rubyArgs, allocs, counts>>
  /\ UNCHANGED extra

\* ruby_run(): the interpreter starts executing the script program, which
\* calls relay_verilog any number of times and then ends
handshake_ruby_run ==
  /\ process = "running" /\ pcScript = "run"
  /\ pcScript' = "Running"
  /\ obs' = [obs EXCEPT !.regions = Append(@, "script")]
  /\ UNCHANGED <<mutexType, baton, relay__rubyThread, process, pcSim, capture,
                 hs, rubyArgs, heap, counts>>
  /\ UNCHANGED extra

\* the script program ends and ruby_run returns
handshake_ruby_run_returns ==
  /\ process = "running" /\ pcScript = "Running"
  /\ pcScript' = "Finalizing"
  /\ UNCHANGED <<mutexType, baton, relay__rubyThread, process, pcSim, capture,
                 hs, rubyArgs, heap, counts, obs>>
  /\ UNCHANGED extra

\* ruby_finalize(); return NULL;
handshake_finalize ==
  /\ process = "running" /\ pcScript = "Finalizing"
  /\ pcScript' = "Terminated"
  /\ UNCHANGED <<mutexType, baton, relay__rubyThread, process, pcSim, capture,
                 hs, rubyArgs, heap, counts, obs>>
  /\ UNCHANGED extra

\* ------------------------------------------------------------ relay_verilog
\* the script program calls relay_verilog:
\* pthread_mutex_unlock(&relay__verilogLock)
relay_verilog_unlock ==
  /\ process = "running" /\ pcScript = "Running"
  /\ verilogCalls < MaxCalls
  /\ relay__verilogLock' = MutexUnlock(relay__verilogLock, "script")
  /\ pcScript' = "verilog_lock"
  /\ verilogCalls' = verilogCalls + 1
  /\ obs' = [obs EXCEPT !.sinceCall = 1,
                        !.twice = (obs.last = "verilog"),
                        !.last = "verilog"]
  /\ UNCHANGED <<mutexType, relay__rubyLock, relay__rubyThread, process, pcSim,
                 capture, hs, rubyArgs, heap, rubyCalls, rubyReturns>>
  /\ UNCHANGED extra

\* pthread_mutex_lock(&relay__rubyLock) returns and relay_verilog returns to
\* the script program
relay_verilog_lock ==
  /\ process = "running" /\ pcScript = "verilog_lock"
  /\ MutexLockReturns(relay__rubyLock, "script")
  /\ relay__rubyLock' = MutexLock(relay__rubyLock, "script")
  /\ pcScript' = "Running"
  /\ obs' = [obs EXCEPT !.regions = Append(@, "script")]
  /\ UNCHANGED <<mutexType, relay__verilogLock, relay__rubyThread, process,
                 pcSim, capture, hs, rubyArgs, heap, counts>>
  /\ UNCHANGED extra

Next ==
  \/ relay_init
  \/ relay_ruby_run_malloc
  \/ relay_ruby_run_iterate
  \/ relay_ruby_run_scan
  \/ relay_ruby_run_spawn
  \/ relay_ruby_unlock
  \/ relay_ruby_lock
  \/ handshake_init
  \/ handshake_swig_init
  \/ handshake_options
  \/ handshake_free_string
  \/ handshake_free_argv
  \/ handshake_free_opts
  \/ handshake_ruby_run
  \/ handshake_ruby_run_returns
  \/ handshake_finalize
  \/ relay_verilog_unlock
  \/ relay_verilog_lock

Spec == Init /\ [][Next]_vars

\* ------------------------------------------- relay_ruby_run called again
\* the launches the simulator makes
MaxLaunches == 2

\* the script threads pthread_create has started
Launched == Len(parked) + (IF pcScript = "none" THEN 0 ELSE 1)

\* the simulator calls relay_ruby_run once more: nothing in relay_ruby_run
\* looks at relay__rubyThread or at an earlier launch; vpi_iterate gives a
\* new iterator over the same arguments
relay_ruby_run_again ==
  /\ process = "running" /\ pcSim = "active"
  /\ relay__rubyThread /\ Launched < MaxLaunches
  /\ pcSim' = "launch"
  /\ scanned' = 0
  /\ UNCHANGED <<mutexType, baton, relay__rubyThread, process, pcScript,
                 srcArgs, argVal, mArgs, mCount, hs, rubyArgs, heap, counts, obs>>
  /\ UNCHANGED extra

\* the scheduler runs another script thread: the thread that was being
\* stepped is set aside with its position, locals and argument
switch_thread ==
  /\ process = "running"
  /\ \E k \in 1..Len(parked) :
       /\ pcScript' = parked[k].pcScript
       /\ hs' = parked[k].hs
       /\ apRubyOptions' = parked[k].apRubyOptions
       /\ parked' = [parked EXCEPT ![k] = ScriptThread]
  /\ UNCHANGED <<mutexType, baton, relay__rubyThread, process, pcSim, capture,
                 rubyArgs, heap, counts, obs, diag, main, vpiMethods, rb>>

\* launches and script threads only: relay_ruby and relay_verilog neither
\* start nor end a thread and are left to Spec
NextRelaunch ==
  \/ relay_init
  \/ relay_ruby_run_malloc
  \/ relay_ruby_run_iterate
  \/ relay_ruby_run_scan
  \/ relay_ruby_run_spawn
  \/ relay_ruby_run_again
  \/ handshake_init
  \/ handshake_swig_init
  \/ handshake_options
  \/ handshake_free_string
  \/ handshake_free_argv
  \/ handshake_free_opts
  \/ handshake_ruby_run
  \/ handshake_ruby_run_returns
  \/ handshake_finalize
  \/ switch_thread

SpecRelaunch == Init /\ [][NextRelaunch]_vars

\* ------------------------------------ main_relay_verilog, main_relay_ruby_reason
\* the functions main.c registers in the Vpi module, as the script program
\* calls them
\* the objects the script program can call the module functions on
Receivers == {"Vpi", "bench"}

\* the pointer to the callback record the simulator last delivered
vlog_relay_ruby_reason == "p_cb_data"

\* main_relay_verilog(arSelf) is entered and calls relay_verilog:
\* pthread_mutex_unlock(&relay__verilogLock)
main_relay_verilog_unlock ==
  /\ process = "running" /\ pcScript = "Running"
  /\ verilogCalls < MaxCalls
  /\ \E arSelf \in Receivers :
       rb' = [method |-> "relay_verilog", self |-> arSelf, ret |-> "none",
              handoffs |-> 1]
  /\ relay__verilogLock' = MutexUnlock(relay__verilogLock, "script")
  /\ pcScript' = "verilog_lock"
  /\ verilogCalls' = verilogCalls + 1
  /\ obs' = [obs EXCEPT !.sinceCall = 1,
                        !.twice = (obs.last = "verilog"),
                        !.last = "verilog"]
  /\ UNCHANGED <<mutexType, relay__rubyLock, relay__rubyThread, process, pcSim,
                 capture, hs, rubyArgs, heap, rubyCalls, rubyReturns>>
  /\ UNCHANGED <<diag, main, vpiMethods, apRubyOptions, parked>>

\* main_relay_verilog returning Qnil instead of its receiver
main_relay_verilog_lock_returns_nil ==
  /\ process = "running" /\ pcScript = "verilog_lock"
  /\ MutexLockReturns(relay__rubyLock, "script")
  /\ relay__rubyLock' = MutexLock(relay__rubyLock, "script")
  /\ pcScript' = "Running"
  /\ rb' = [rb EXCEPT !.ret = "nil"]
  /\ obs' = [obs EXCEPT !.regions = Append(@, "script")]
  /\ UNCHANGED <<mutexType, relay__verilogLock, relay__rubyThread, process,
                 pcSim, capture, hs, rubyArgs, heap, counts>>
  /\ UNCHANGED <<diag, main, vpiMethods, apRubyOptions, parked>>

\* pthread_mutex_lock(&relay__rubyLock) returns, relay_verilog returns, and
\* main_relay_verilog returns arSelf to the script program
main_relay_verilog_lock ==
  /\ process = "running" /\ pcScript = "verilog_lock"
  /\ MutexLockReturns(relay__rubyLock, "script")
  /\ relay__rubyLock' = MutexLock(relay__rubyLock, "script")
  /\ pcScript' = "Running"
  /\ rb' = [rb EXCEPT !.ret = rb.self]
  /\ obs' = [obs EXCEPT !.regions = Append(@, "script")]
  /\ UNCHANGED <<mutexType, relay__verilogLock, relay__rubyThread, process,
                 pcSim, capture, hs, rubyArgs, heap, counts>>
  /\ UNCHANGED <<diag, main, vpiMethods, apRubyOptions, parked>>

\* the script program calls Vpi::relay_ruby_reason: the callback record of
\* the simulator, wrapped by SWIG_NewPointerObj; the receiver is not used
main_relay_ruby_reason ==
  /\ process = "running" /\ pcScript = "Running"
  /\ rb' = [rb EXCEPT !.method = "relay_ruby_reason",
                      !.ret = vlog_relay_ruby_reason,
                      !.handoffs = 0]
  /\ UNCHANGED <<mutexType, baton, relay__rubyThread, process, pcSim, pcScript,
                 capture, hs, rubyArgs, heap, counts, obs>>
  /\ UNCHANGED <<diag, main, vpiMethods, apRubyOptions, parked>>

\* the callables read no argument of the launch: launches with at most one
\* argument
InitCallables == Init /\ Len(srcArgs) <= 1

\* Next with the script program reaching relay_verilog through
\* main_relay_verilog
NextCallables ==
  \/ relay_init
  \/ relay_ruby_run_malloc
  \/ relay_ruby_run_iterate
  \/ relay_ruby_run_scan
  \/ relay_ruby_run_spawn
  \/ relay_ruby_unlock
  \/ relay_ruby_lock
  \/ handshake_init
  \/ handshake_swig_init
  \/ handshake_options
  \/ handshake_free_string
  \/ handshake_free_argv
  \/ handshake_free_opts
  \/ handshake_ruby_run
  \/ handshake_ruby_run_returns
  \/ handshake_finalize
  \/ main_relay_verilog_unlock
  \/ main_relay_verilog_lock
  \/ main_relay_ruby_reason

SpecCallables == InitCallables /\ [][NextCallables]_vars

\* ---------------------------------------------------------------- main_init
\* main_init runs the interpreter on the calling thread: a start-up path of
\* its own, taken instead of relay_init and relay_ruby_run.
\* the script files RUBYVPI_BOOTSTRAP can name
BenchFiles == {"bench.rb", "test.rb"}

\* what getenv returns for an unset variable
Absent == "NULL"

\* the text main_init prints before exit(EXIT_FAILURE)
NoBenchMessage == "error: environment variable RUBY_VPI__RUBY_BENCH_FILE is uninitialized."

MainFrame == <<mutexType, baton, relay__rubyThread, pcSim, pcScript, capture,
               hs, rubyArgs, heap, counts, obs, rb, apRubyOptions, parked>>

\* ruby_init(); ruby_init_loadpath();
main_init_ruby ==
  /\ process = "running" /\ pcSim = "boot" /\ main.pc = "none"
  /\ main' = [main EXCEPT !.pc = "vpi"]
  /\ UNCHANGED <<MainFrame, process, diag, vpiMethods>>

\* Init_vpi(); rb_define_module_function(mVpi, ...) twice
main_init_vpi ==
  /\ process = "running" /\ main.pc = "vpi"
  /\ vpiMethods' = vpiMethods \cup {"relay_verilog", "relay_ruby_reason"}
  /\ main' = [main EXCEPT !.pc = "getenv"]
  /\ UNCHANGED <<MainFrame, process, diag>>

\* char* benchFile = getenv("RUBYVPI_BOOTSTRAP");
main_init_getenv ==
  /\ process = "running" /\ main.pc = "getenv"
  /\ \E v \in BenchFiles \cup {Absent} :
       main' = [main EXCEPT !.benchFile = v, !.pc = "check"]
  /\ UNCHANGED <<MainFrame, process, diag, vpiMethods>>

\* the else branch falling through to ruby_run instead of calling exit
main_init_bench_no_exit ==
  /\ process = "running" /\ main.pc = "check"
  /\ IF main.benchFile # Absent
     THEN /\ main' = [main EXCEPT !.script = main.benchFile, !.loaded = TRUE,
                                  !.pc = "run"]
          /\ UNCHANGED <<process, diag>>
     ELSE /\ diag' = diag \cup {NoBenchMessage}
          /\ main' = [main EXCEPT !.pc = "run"]
          /\ UNCHANGED process
  /\ UNCHANGED <<MainFrame, vpiMethods>>

\* if (benchFile != NULL) { ruby_script; rb_load_file } else { printf; exit }
main_init_bench ==
  /\ process = "running" /\ main.pc = "check"
  /\ IF main.benchFile # Absent
     THEN /\ main' = [main EXCEPT !.script = main.benchFile, !.loaded = TRUE,
                                  !.pc = "run"]
          /\ UNCHANGED <<process, diag>>
     ELSE /\ diag' = diag \cup {NoBenchMessage}
          /\ process' = "exit_failure"
          /\ main' = [main EXCEPT !.pc = "exited"]
  /\ UNCHANGED <<MainFrame, vpiMethods>>

\* ruby_run();
main_init_run ==
  /\ process = "running" /\ main.pc = "run"
  /\ main' = [main EXCEPT !.ran = TRUE, !.pc = "finalize"]
  /\ UNCHANGED <<MainFrame, process, diag, vpiMethods>>

\* ruby_finalize();
main_init_finalize ==
  /\ process = "running" /\ main.pc = "finalize"
  /\ main' = [main EXCEPT !.finalized = TRUE, !.pc = "done"]
  /\ UNCHANGED <<MainFrame, process, diag, vpiMethods>>

NextMain ==
  \/ main_init_ruby
  \/ main_init_vpi
  \/ main_init_getenv
  \/ main_init_bench
  \/ main_init_run
  \/ main_init_finalize

SpecMain == Init /\ [][NextMain]_vars

\* ------------------------------------------------------------------- types
TypeOK ==
  /\ mutexType \in MutexTypes
  /\ process \in {"running", "exit_failure", "abort"}
  /\ pcSim \in {"boot", "launch", "iterate", "scan", "spawn", "active", "ruby_lock"}
  /\ pcScript \in {"none", "spawned", "Init", "Ready", "free_strings",
                   "free_argv", "free_opts", "run", "Running", "verilog_lock",
                   "Finalizing", "Terminated"}
  /\ mCount \in 0..MaxArgs
  /\ rubyCalls \in 0..MaxCalls /\ rubyReturns \in 0..MaxCalls
  /\ verilogCalls \in 0..MaxCalls

\* ------------------------------------------------------------- definitions
\* the simulation thread is in an active region: it runs from the start of
\* the process and yields by calling relay_ruby
SimActive == process = "running" /\ pcSim # "ruby_lock"

\* the script thread is in an active region: the interpreter executes the
\* script program, outside relay_verilog
ScriptActive == process = "running" /\ pcScript = "Running"

\* the counter of the instrumentation: threads inside an active region
ActiveCount == (IF SimActive THEN 1 ELSE 0) + (IF ScriptActive THEN 1 ELSE 0)

\* ruby_run has been entered
RubyRunEntered == pcScript \in {"Running", "verilog_lock", "Finalizing", "Terminated"}

\* the script thread is past the frees of ruby_run_handshake
BufferReleased == pcScript \in {"run", "Running", "verilog_lock", "Finalizing", "Terminated"}

\* ------------------------------------------------------------------ claims
\* C1: mutual exclusion: the counter of threads inside an active region
\* never exceeds 1.
C1_MutualExclusion == ActiveCount <= 1

\* C2: start gating: the script thread does not execute the interpreted
\* program (ruby_run) before the simulation thread's first relay_ruby call.
C2_StartGating == RubyRunEntered => rubyCalls >= 1

\* C3: strict alternation: the active regions alternate simulation, script,
\* simulation, ..., starting with the simulation side, and none overlaps
\* another.
C3_StrictAlternation ==
  /\ obs.regions[1] = "sim"
  /\ \A i \in 1..(Len(obs.regions) - 1) : obs.regions[i] # obs.regions[i + 1]
  /\ ~(SimActive /\ ScriptActive)

\* C4: synchronous handoff: relay_ruby returns only when relay_verilog was
\* called after this relay_ruby call began, never on the strength of an
\* earlier relay_verilog call.
C4_SynchronousHandoff ==
  [][(pcSim = "ruby_lock" /\ pcSim' = "active") => obs.sinceCall = 1]_vars

\* C5: progress under correct use: when the simulation thread has returned
\* from its N-th relay_ruby and the script program has made N relay_verilog
\* calls, the script thread is blocked inside relay_verilog on its gate; the
\* simulation thread is never left waiting inside its N-th relay_ruby when
\* the script program has made and returned from its N calls.
C5_Progress ==
  /\ (pcSim = "active" /\ rubyReturns >= 1 /\ rubyReturns = verilogCalls)
       => (pcScript = "verilog_lock" /\ ~MutexLockReturns(relay__rubyLock, "script"))
  /\ ~(/\ pcSim = "ruby_lock" /\ ~MutexLockReturns(relay__verilogLock, "sim")
       /\ rubyCalls = verilogCalls /\ pcScript = "Running")

\* C6: deadlock on misuse: a handoff called twice in a row by its side, with
\* no call of the dual operation by the other side in between, does not
\* return from the second call.
C6_DeadlockOnMisuse ==
  [][/\ (pcSim = "ruby_lock" /\ obs.twice /\ obs.last = "ruby")
          => pcSim' = "ruby_lock"
     /\ (pcScript = "verilog_lock" /\ obs.twice /\ obs.last = "verilog")
          => pcScript' = "verilog_lock"]_vars

\* C7: silent end of alternation: a relay_ruby call the simulation thread
\* starts after the script thread has terminated never returns.
C7_SilentEnd ==
  [][(pcSim = "ruby_lock" /\ obs.afterEnd) => pcSim' = "ruby_lock"]_vars

\* C8: argument fidelity: ruby_options receives argc = k and an argv whose
\* i-th element equals the i-th source string, and the source sequence is
\* never modified.
C8_ArgumentFidelity ==
  /\ [](rubyArgs.called =>
          /\ rubyArgs.argc = Len(srcArgs)
          /\ Len(rubyArgs.argv.arr) = Len(srcArgs)
          /\ \A i \in 1..Len(srcArgs) :
               /\ ~rubyArgs.argv.arr[i].null
               /\ rubyArgs.argv.arr[i].mem = srcArgs[i])
  /\ [][srcArgs' = srcArgs]_vars

\* C9: no double free and no leak: once ruby_run_handshake is past its
\* frees, every copied string, the argument array (when one was allocated)
\* and the options structure have been freed exactly once, and no block is
\* ever freed more often than it was allocated.
C9_NoDoubleFreeNoLeak ==
  /\ \A b \in Blocks : frees[b] <= allocs[b]
  /\ BufferReleased =>
       /\ frees[OptsBlock] = 1
       /\ frees[ArgvBlock] = (IF hs.argc = 0 THEN 0 ELSE 1)
       /\ \A i \in 1..hs.argc :
            ~hs.argv.arr[i].null => frees[StrBlock(i)] = 1
       /\ \A b \in Blocks : frees[b] = allocs[b]

\* a launch cycle with two or more arguments, all copied, has completed
C9_Witness ==
  /\ pcScript = "Terminated"
  /\ hs.argc >= 2
  /\ \A i \in 1..hs.argc : ~hs.argv.arr[i].null /\ frees[StrBlock(i)] = 1
  /\ frees[ArgvBlock] = 1

\* C10: a failed allocation of the capture loop is fatal: the process
\* terminates and the script thread is never spawned.
C10_CaptureFailureFatal ==
  obs.allocFailed => (process # "running" /\ pcScript = "none")

\* C11: a failed allocation of the options structure is fatal: the
\* diagnostic is printed, the process exits with a failure status, no script
\* thread is created and both gates are as relay_init left them.
C11_OptionsFailureFatal ==
  obs.optsFailed =>
    /\ NoMemoryMessage \in diag
    /\ process = "exit_failure"
    /\ pcScript = "none" /\ ~relay__rubyThread /\ parked = <<>>
    /\ relay__rubyLock = HeldBy("sim") /\ relay__verilogLock = HeldBy("sim")

\* the malloc of the options structure has failed and the process is gone
C11_Witness == obs.optsFailed /\ process # "running" /\ pcSim = "launch"

\* C12: a missing RUBYVPI_BOOTSTRAP is fatal: once main_init has seen the
\* variable absent it prints the diagnostic and exits with a failure status,
\* and the script is never loaded, run or finalized.
C12_MissingConfigFatal ==
  main.benchFile = Absent =>
    /\ main.pc = "check" \/ (process = "exit_failure" /\ NoBenchMessage \in diag)
    /\ ~main.loaded /\ ~main.ran /\ ~main.finalized

\* main_init has found the variable absent and the process is gone
C12_Witness == main.benchFile = Absent /\ main.pc = "exited" /\ process = "exit_failure"

\* C13: non-blocking launch: inside relay_ruby_run the simulation thread can
\* always take its next step, whatever the gates and the script thread are
\* doing; no step of relay_ruby_run touches a gate; and it returns with the
\* script thread spawned and not yet run.
C13_NonBlockingLaunch ==
  /\ [](InRelayRubyRun => ENABLED RelayRubyRunStep)
  /\ [][RelayRubyRunStep => UNCHANGED baton]_vars
  /\ [][relay_ruby_run_spawn => (pcSim' = "active" /\ pcScript' = "spawned")]_vars

\* relay_ruby_run has returned and the script thread has not taken a step
C13_Witness ==
  pcSim = "active" /\ pcScript = "spawned" /\ relay__rubyThread /\ rubyCalls = 0

\* some relay_verilog call of the script program has returned
VerilogReturned ==
  verilogCalls >= 2 \/ (verilogCalls = 1 /\ pcScript # "verilog_lock")

\* C14: initial baton state: right after relay_init both gates are held
\* closed; no relay_verilog call returns before the simulation thread's
\* first relay_ruby call, and no relay_ruby call returns before the script
\* thread has called relay_verilog.
C14_InitialBatonState ==
  /\ pcSim = "launch" => (relay__rubyLock.locked /\ relay__verilogLock.locked)
  /\ VerilogReturned => rubyCalls >= 1
  /\ rubyReturns >= 1 => verilogCalls >= 1

\* how far the script thread has come: 0 created, 1 Init (runtime and load
\* path set up), 2 Ready (entry points installed), 3 Running (ruby_options,
\* the frees, ruby_run), 4 Finalizing, 5 Terminated
ScriptPhase ==
  CASE pcScript \in {"none", "spawned"} -> 0
    [] pcScript = "Init" -> 1
    [] pcScript = "Ready" -> 2
    [] pcScript \in {"free_strings", "free_argv", "free_opts", "run",
                     "Running", "verilog_lock"} -> 3
    [] pcScript = "Finalizing" -> 4
    [] pcScript = "Terminated" -> 5

\* C15: bootstrap state machine: the script thread moves through Init,
\* Ready, Running, Finalizing and Terminated one state at a time and never
\* backwards, and the handoff entry points are installed before
\* ruby_options and before any script code runs.
C15_BootstrapOrder ==
  /\ [][ScriptPhase' \in {ScriptPhase, ScriptPhase + 1}]_vars
  /\ []((rubyArgs.called \/ RubyRunEntered) => SwigInit \subseteq vpiMethods)
  /\ [](RubyRunEntered => (rubyArgs.called /\ frees[OptsBlock] = 1))

\* the script thread has gone through all five states
C15_Witness == pcScript = "Terminated" /\ SwigInit \subseteq vpiMethods /\ rubyArgs.called

\* C16: one-shot ownership transfer: the simulation thread touches the
\* argument buffer only before pthread_create and the script thread only
\* after it and before the buffer is freed; the buffer goes to ruby_options
\* before anything is freed, every string is freed before the array, and
\* all of it before ruby_run starts.
C16_OwnershipTransfer ==
  /\ obs.touch \subseteq {<<"sim", "before_spawn">>, <<"script", "after_spawn">>}
  /\ (\E b \in Blocks : frees[b] > 0) => rubyArgs.called
  /\ frees[ArgvBlock] > 0 =>
       \A i \in 1..hs.argc : ~hs.argv.arr[i].null => frees[StrBlock(i)] = 1
  /\ frees[OptsBlock] > 0 => (hs.argv.null \/ frees[ArgvBlock] = 1)
  /\ RubyRunEntered => frees[OptsBlock] = 1

\* both threads have touched the buffer and the script thread, having freed
\* it, is running the script program
C16_Witness ==
  /\ obs.touch = {<<"sim", "before_spawn">>, <<"script", "after_spawn">>}
  /\ pcScript = "Running" /\ hs.argc >= 1 /\ frees[ArgvBlock] = 1

\* C18: main_relay_verilog makes one relay_verilog handoff and returns its
\* receiver; main_relay_ruby_reason leaves both mutexes and the position of
\* both threads as they are and can always return.
C18_ScriptCallables ==
  /\ [][main_relay_verilog_unlock => verilogCalls' = verilogCalls + 1]_vars
  /\ [][main_relay_verilog_lock =>
          (rb.method = "relay_verilog" /\ rb.handoffs = 1 /\ rb'.ret = rb.self
           /\ verilogCalls' = verilogCalls)]_vars
  /\ [][main_relay_ruby_reason =>
          UNCHANGED <<baton, process, pcSim, pcScript>>]_vars
  /\ []((process = "running" /\ pcScript = "Running") =>
          ENABLED main_relay_ruby_reason)

\* main_relay_verilog has returned its receiver and the script program has
\* then read the reason
C18_Witness ==
  /\ rb.method = "relay_ruby_reason" /\ rb.ret = vlog_relay_ruby_reason
  /\ rb.self \in Receivers /\ verilogCalls >= 1 /\ pcScript = "Running"

\* the gates that are open: the mutexes relay_init has set up that no thread
\* holds
OpenGates ==
  IF pcSim = "boot" THEN 0
  ELSE (IF relay__rubyLock.locked THEN 0 ELSE 1)
       + (IF relay__verilogLock.locked THEN 0 ELSE 1)

\* the active regions have alternated, the simulation side first, and do
\* not overlap
RegionsAlternate ==
  /\ obs.regions[1] = "sim"
  /\ \A i \in 1..(Len(obs.regions) - 1) : obs.regions[i] # obs.regions[i + 1]
  /\ ActiveCount <= 1

\* C19: no lost or duplicated baton: while the two sides alternate, every
\* unlock of relay_ruby and of relay_verilog acts on a locked mutex, and the
\* open gates and the active threads together number at most 1.
C19_NoLostBaton ==
  /\ [][(RegionsAlternate /\ relay_ruby_unlock) => relay__rubyLock.locked]_vars
  /\ [][(RegionsAlternate /\ relay_verilog_unlock) => relay__verilogLock.locked]_vars
  /\ [](RegionsAlternate => OpenGates + ActiveCount <= 1)

\* C20: mutex ownership discipline: every pthread_mutex_unlock of relay_ruby
\* and of relay_verilog is made by the thread that holds the mutex, the
\* locks taken in relay_init included.
C20_OwnershipDiscipline ==
  /\ [][relay_ruby_unlock => relay__rubyLock = HeldBy("sim")]_vars
  /\ [][relay_verilog_unlock => relay__verilogLock = HeldBy("script")]_vars

\* the script threads that exist: started by pthread_create and not yet
\* returned from ruby_run_handshake
ScriptThreads ==
  (IF pcScript \in {"none", "Terminated"} THEN 0 ELSE 1)
  + Cardinality({k \in 1..Len(parked) : parked[k].pcScript # "Terminated"})

\* C17: exactly two threads: whatever calls the simulator makes, a second
\* relay_ruby_run included, at most one script thread exists, so the bridge
\* has at most two threads of control.
C17_TwoThreads == 1 + ScriptThreads <= 2
====
